---- MODULE Spec2Model ----
(***************************************************************************)
(* Model of the agent-cli multi-agent coordinator: the TaskServer          *)
(* (dist/server/TaskServer.js), its LockManager                            *)
(* (dist/server/LockManager.js), the file message queue and state file     *)
(* (shared/protocol.ts) and the AgentClient (client/AgentClient.ts).       *)
(*                                                                         *)
(* Time is in milliseconds, as Date.now().  Every handler is a function    *)
(* from a coordinator state record to the next one, so that the tick can   *)
(* compose them in the order the code runs them.                           *)
(***************************************************************************)
EXTENDS Integers, Sequences, FiniteSets, TLC

VARIABLES
    now,            \* Date.now()
    ticks,          \* number of clock advances so far (bounds the run)
    agents,         \* TaskServer.state.agents    : agent id -> AgentInfo
    agentOrder,     \* key order of state.agents  : Seq(agent id)
    tasks,          \* TaskServer.state.tasks     : task id -> Task
    taskQueue,      \* TaskServer.state.taskQueue : Seq(task id)
    completedTasks, \* TaskServer.state.completedTasks
    locks,          \* LockManager.locks          : path -> FileLock
    inbox,          \* agents/<id>/inbox          : agent id -> Seq(Message)
    outbox,         \* agents/<id>/outbox         : agent id -> Seq(Message)
    stateFile,      \* state.json                 : snapshot or NoFile
    client,         \* AgentClient processes      : agent id -> client state
    lockFile,       \* state.json.lock           : the advisory lockfile
    writers,        \* processes inside StateManager.updateState
    passes,         \* tick callbacks in progress : Seq(pass)
    env,            \* process.env               : the AGENT_* variables
    fileConfig,     \* .agent-coordinator/config.json
    config          \* the ServerConfig loadConfig returned

vars == <<now, ticks, agents, agentOrder, tasks, taskQueue, completedTasks,
          locks, inbox, outbox, stateFile, client,
          lockFile, writers, passes, env, fileConfig, config>>

\* the parts of the state outside the coordinator, its queues and its clients
aux == <<lockFile, writers, passes, env, fileConfig, config>>

----------------------------------------------------------------------------
(* Bounds of the model *)

MaxTasks == 2
MaxApiTasks == 1
MaxTicks == 2
MaxInbox == 1
MaxOutbox == 2
MaxAttemptsSeen == 4
MaxHistory == 1
MaxCount == 1
MaxDrift == 2
MaxFailures == 3
MaxPasses == 2
MaxRequests == 2
MaxLockInbox == 2

(* Program constants *)

MaxAttempts == 3
HeartbeatInterval == 5000
HeartbeatTimeout == 30000
LockTimeout == 300000
StaleAgentMs == 300000
MaxAgents == 10
TaskTimeout == 3600000
LockWaitMs == 5000
LockPollMs == 50
StaleLockMs == 30000

(* Finite input domains *)

Agents == {"a1", "a2"}
ClientIds == {"a1"}
TaskIds == 1..MaxTasks
Paths == {"x", "/proj/x"}
NoAgent == "none"
NoTask == 0
NoTime == -1
Priorities == {"critical", "normal"}
AllPriorities == {"critical", "high", "normal", "low"}
FileChoices == {<<>>, <<"x">>}
\* a task id typed by hand (--depends) that names no task
GhostTask == 99
LockTypes == {"read", "write", "exclusive"}
\* request.paths: relative and absolute spellings, one or two paths
PathChoices == {<<"x">>, <<"/proj/x">>, <<"x", "y">>}
\* request.timeoutMs: absent (0), or a number of milliseconds of either sign
TimeoutChoices == {0, 1, -1}
\* additionalMs of extendLock
ExtendChoices == {1, 0, -1}

----------------------------------------------------------------------------
(* Generic helpers on maps and sequences *)

SetKey(f, k, v) == [x \in (DOMAIN f) \cup {k} |-> IF x = k THEN v ELSE f[x]]

DelKey(f, k) == [x \in (DOMAIN f) \ {k} |-> f[x]]

Restrict(f, S) == [x \in S |-> f[x]]

Range(s) == {s[i] : i \in 1..Len(s)}

Contains(s, e) == \E i \in 1..Len(s) : s[i] = e

\* Array.prototype.indexOf: the first index holding e, 0 when absent
IndexOf(s, e) ==
    IF Contains(s, e) THEN CHOOSE i \in 1..Len(s) : s[i] = e /\ \A j \in 1..(i-1) : s[j] # e
    ELSE 0

\* Array.prototype.splice(i, 1)
RemoveAt(s, i) == [j \in 1..(Len(s)-1) |-> IF j < i THEN s[j] ELSE s[j+1]]

\* Array.prototype.splice(indexOf(e), 1) guarded by index > -1
RemoveFirst(s, e) == IF IndexOf(s, e) = 0 THEN s ELSE RemoveAt(s, IndexOf(s, e))

\* Array.prototype.unshift
Unshift(s, e) == <<e>> \o s

Count(s, e) == Cardinality({i \in 1..Len(s) : s[i] = e})

----------------------------------------------------------------------------
(* LockManager *)

\* path.isAbsolute(p) ? path.relative(projectPath, p) : p   (projectPath = /proj)
normalizePath(p) == IF p = "/proj/x" THEN "x" ELSE p

\* the lock-type test with "or" in the place of "and"
isCompatibleLockEither(existing, requested) == existing = "read" \/ requested = "read"

isCompatibleLock(existing, requested) == existing = "read" /\ requested = "read"

cleanExpiredLocks(L, t) == Restrict(L, {p \in DOMAIN L : ~(t > L[p].expiresAt)})

RECURSIVE acquireLoop(_, _, _, _)
acquireLoop(acc, req, i, t) ==
    IF i > Len(req.paths) THEN acc
    ELSE LET filePath == req.paths[i]
             np == normalizePath(filePath)
             held == np \in DOMAIN acc.locks
             denied == /\ held
                       /\ acc.locks[np].agentId # req.agentId
                       /\ ~isCompatibleLock(acc.locks[np].lockType, req.lockType)
             lock == [agentId |-> req.agentId, taskId |-> req.taskId,
                      lockedAt |-> t,
                      expiresAt |-> t + (IF req.timeoutMs # 0 THEN req.timeoutMs ELSE LockTimeout),
                      lockType |-> req.lockType]
         IN IF denied
            THEN acquireLoop([acc EXCEPT !.failed = Append(@, filePath),
                                         !.conflicts = Append(@, [path |-> filePath,
                                                                  heldBy |-> acc.locks[np].agentId])],
                             req, i + 1, t)
            ELSE acquireLoop([acc EXCEPT !.locks = SetKey(@, np, lock),
                                         !.acquired = Append(@, filePath)],
                             req, i + 1, t)

\* an acquireLocks that installs nothing unless every path is granted
acquireLocksAllOrNothing(L, req, t) ==
    LET r == acquireLoop([locks |-> cleanExpiredLocks(L, t), acquired |-> <<>>,
                          failed |-> <<>>, conflicts |-> <<>>], req, 1, t)
    IN [locks |-> IF r.failed = <<>> THEN r.locks ELSE cleanExpiredLocks(L, t),
        result |-> [success |-> r.failed = <<>>, acquired |-> r.acquired,
                    failed |-> r.failed, conflicts |-> r.conflicts]]

\* returns the new lock map and the LockResult
acquireLocks(L, req, t) ==
    LET r == acquireLoop([locks |-> cleanExpiredLocks(L, t), acquired |-> <<>>,
                          failed |-> <<>>, conflicts |-> <<>>], req, 1, t)
    IN [locks |-> r.locks,
        result |-> [success |-> r.failed = <<>>, acquired |-> r.acquired,
                    failed |-> r.failed, conflicts |-> r.conflicts]]

releaseLocks(L, agentId, paths) ==
    Restrict(L, {p \in DOMAIN L :
                   ~(L[p].agentId = agentId /\ \E i \in 1..Len(paths) : normalizePath(paths[i]) = p)})

releaseAllLocks(L, agentId) == Restrict(L, {p \in DOMAIN L : L[p].agentId # agentId})

releaseTaskLocks(L, taskId) == Restrict(L, {p \in DOMAIN L : L[p].taskId # taskId})

\* a conflict check that finds nothing
checkConflictsNever(L, agentId, paths, t) == <<>>

\* a conflict check that compares the holder the wrong way round
checkConflictsOfOwner(L, agentId, paths, t) ==
    LET L2 == cleanExpiredLocks(L, t)
    IN SelectSeq(paths, LAMBDA fp : normalizePath(fp) \in DOMAIN L2
                                    /\ L2[normalizePath(fp)].agentId = agentId)

\* the conflicts found on the swept map (the sweep itself is cleanExpiredLocks)
checkConflicts(L, agentId, paths, t) ==
    LET L2 == cleanExpiredLocks(L, t)
    IN SelectSeq(paths, LAMBDA fp : normalizePath(fp) \in DOMAIN L2
                                    /\ L2[normalizePath(fp)].agentId # agentId)

\* the map after getAllLocks() has swept it; the array returned is its values
getAllLocks(L, t) == cleanExpiredLocks(L, t)

\* the lock returned for a path: no lock (null) is the empty set
getLock(L, filePath) ==
    IF normalizePath(filePath) \in DOMAIN L THEN {L[normalizePath(filePath)]} ELSE {}

\* the paths of the locks returned for an agent
getAgentLocks(L, agentId) == {p \in DOMAIN L : L[p].agentId = agentId}

isLocked(L, filePath, t) ==
    /\ normalizePath(filePath) \in DOMAIN L
    /\ ~(t > L[normalizePath(filePath)].expiresAt)

\* returns the new lock map and the boolean result
extendLock(L, agentId, filePath, additionalMs) ==
    LET np == normalizePath(filePath)
    IN IF np \notin DOMAIN L \/ L[np].agentId # agentId THEN [locks |-> L, ok |-> FALSE]
       ELSE [locks |-> [L EXCEPT ![np].expiresAt = @ + additionalMs], ok |-> TRUE]

forceRelease(L, filePath) == DelKey(L, normalizePath(filePath))

\* constructor: only locks with Date.now() < expiresAt are loaded from active.json
loadLocks(L, t) == Restrict(L, {p \in DOMAIN L : t < L[p].expiresAt})

----------------------------------------------------------------------------
(* Message envelopes (shared/protocol.ts createMessage).  One record shape  *)
(* for every type; the fields a type does not carry keep their defaults.    *)

Msg(type, t) ==
    [type |-> type, timestamp |-> t, taskId |-> NoTask, status |-> "", error |-> "",
     agentId |-> NoAgent, paths |-> <<>>, lockType |-> "", timeoutMs |-> 0,
     success |-> FALSE, acquired |-> <<>>, failed |-> <<>>, id |-> 0,
     correlationId |-> 0]

\* FileMessageQueue.sendToAgent: one more file in the agent's inbox
sendToAgent(ib, agentId, m) == [ib EXCEPT ![agentId] = Append(@, m)]

----------------------------------------------------------------------------
(* TaskServer: state and persistence *)

NoFile == [exists |-> FALSE, agents |-> <<>>, agentOrder |-> <<>>, tasks |-> <<>>,
           taskQueue |-> <<>>, completedTasks |-> <<>>]

createInitialState ==
    [agents |-> <<>>, agentOrder |-> <<>>, tasks |-> <<>>, taskQueue |-> <<>>,
     completedTasks |-> <<>>]

\* StateManager.writeState(this.state): the file becomes the in-memory snapshot
saveState(st) ==
    [st EXCEPT !.stateFile = [exists |-> TRUE, agents |-> st.agents,
                              agentOrder |-> st.agentOrder, tasks |-> st.tasks,
                              taskQueue |-> st.taskQueue,
                              completedTasks |-> st.completedTasks]]

newAgent(t) ==
    [status |-> "idle", currentTask |-> NoTask, lastHeartbeat |-> t,
     completedTasks |-> 0, failedTasks |-> 0]

----------------------------------------------------------------------------
(* TaskServer: agent management *)

registerAgent(st, agentId, t) ==
    saveState([st EXCEPT !.agents = SetKey(@, agentId, newAgent(t)),
                         !.agentOrder = IF agentId \in DOMAIN st.agents THEN @
                                        ELSE Append(@, agentId)])

updateHeartbeat(st, agentId, status, t) ==
    IF agentId \notin DOMAIN st.agents THEN st
    ELSE saveState([st EXCEPT !.agents[agentId].lastHeartbeat = t,
                              !.agents[agentId].status =
                                  IF status # "" /\ status # @ THEN status ELSE @])

----------------------------------------------------------------------------
(* TaskServer: task management *)

\* options.dependsOn.filter(dep exists and is not completed)
blockers(T, deps) ==
    SelectSeq(deps, LAMBDA d : d \in DOMAIN T /\ T[d].status # "completed")

\* generateTaskId() is fresh; ids are handed out in creation order
createTask(st, priority, files, dependsOn) ==
    LET taskId == Cardinality(DOMAIN st.tasks) + 1
        task == [status |-> "pending", assignedAgent |-> NoAgent, attempts |-> 0,
                 maxAttempts |-> MaxAttempts, priority |-> priority,
                 targetFiles |-> files, dependsOn |-> dependsOn,
                 blockedBy |-> blockers(st.tasks, dependsOn),
                 startedAt |-> NoTime, error |-> ""]
    IN saveState([st EXCEPT !.tasks = SetKey(@, taskId, task),
                            !.taskQueue = Append(@, taskId)])

\* returns [st, ok]: ok is "the call returned the task, not null"
assignTask(st, taskId, agentId, t) ==
    IF taskId \notin DOMAIN st.tasks \/ agentId \notin DOMAIN st.agents
        THEN [st |-> st, ok |-> FALSE]
    ELSE IF st.tasks[taskId].status # "pending" THEN [st |-> st, ok |-> FALSE]
    ELSE IF st.agents[agentId].status # "idle" THEN [st |-> st, ok |-> FALSE]
    ELSE IF blockers(st.tasks, st.tasks[taskId].blockedBy) # <<>>
        THEN [st |-> st, ok |-> FALSE]
    ELSE LET st1 == [st EXCEPT !.tasks[taskId].blockedBy = <<>>]
             files == st.tasks[taskId].targetFiles
             \* checkConflicts sweeps expired locks before it looks
             st2 == IF files # <<>>
                    THEN [st1 EXCEPT !.locks = cleanExpiredLocks(@, t)] ELSE st1
         IN IF files # <<>> /\ checkConflicts(st.locks, agentId, files, t) # <<>>
            THEN [st |-> st2, ok |-> FALSE]
            ELSE LET st3 == [st2 EXCEPT
                                !.tasks[taskId].status = "assigned",
                                !.tasks[taskId].assignedAgent = agentId,
                                !.tasks[taskId].attempts = @ + 1,
                                !.agents[agentId].status = "working",
                                !.agents[agentId].currentTask = taskId,
                                !.taskQueue = RemoveFirst(@, taskId),
                                !.locks = IF files # <<>>
                                          THEN acquireLocks(@, [agentId |-> agentId,
                                                   taskId |-> taskId, paths |-> files,
                                                   lockType |-> "write", timeoutMs |-> 0],
                                                   t).locks
                                          ELSE @]
                     st4 == saveState(st3)
                 IN [st |-> [st4 EXCEPT !.inbox = sendToAgent(@, agentId,
                                    [Msg("TASK_ASSIGN", t) EXCEPT !.taskId = taskId])],
                     ok |-> TRUE]

startTask(st, taskId, agentId, t) ==
    IF taskId \notin DOMAIN st.tasks THEN st
    ELSE IF st.tasks[taskId].assignedAgent # agentId THEN st
    ELSE saveState([st EXCEPT !.tasks[taskId].status = "in_progress",
                              !.tasks[taskId].startedAt = t])

\* task.blockedBy.splice(indexOf(completedTaskId), 1) for every task
unblockDependentTasks(T, completedTaskId) ==
    [u \in DOMAIN T |-> [T[u] EXCEPT !.blockedBy = RemoveFirst(@, completedTaskId)]]

completeTask(st, taskId, agentId, t) ==
    IF taskId \notin DOMAIN st.tasks THEN st
    ELSE IF st.tasks[taskId].assignedAgent # agentId THEN st
    ELSE LET st1 == [st EXCEPT !.tasks[taskId].status = "completed",
                               !.locks = releaseTaskLocks(@, taskId)]
             st2 == IF agentId \in DOMAIN st.agents
                    THEN [st1 EXCEPT !.agents[agentId].status = "idle",
                                     !.agents[agentId].currentTask = NoTask,
                                     !.agents[agentId].completedTasks = @ + 1]
                    ELSE st1
         IN saveState([st2 EXCEPT !.completedTasks = Append(@, taskId),
                                  !.tasks = unblockDependentTasks(@, taskId)])

\* a retry that is always granted
retriesLeftAlways(task) == task.attempts <= task.maxAttempts

\* the retry test of failTask
retriesLeft(task) == task.attempts < task.maxAttempts

failTask(st, taskId, agentId, error, t) ==
    IF taskId \notin DOMAIN st.tasks THEN st
    ELSE IF st.tasks[taskId].assignedAgent # agentId THEN st
    ELSE LET st1 == [st EXCEPT !.locks = releaseTaskLocks(@, taskId)]
             st2 == IF retriesLeft(st.tasks[taskId])
                    THEN [st1 EXCEPT !.tasks[taskId].status = "pending",
                                     !.tasks[taskId].assignedAgent = NoAgent,
                                     !.tasks[taskId].error = error,
                                     !.taskQueue = Unshift(@, taskId)]
                    ELSE [st1 EXCEPT !.tasks[taskId].status = "failed",
                                     !.tasks[taskId].error = error]
             st3 == IF agentId \in DOMAIN st.agents
                    THEN [st2 EXCEPT !.agents[agentId].status = "idle",
                                     !.agents[agentId].currentTask = NoTask,
                                     !.agents[agentId].failedTasks = @ + 1]
                    ELSE st2
         IN saveState(st3)

unassignTask(st, taskId) ==
    IF taskId \notin DOMAIN st.tasks THEN st
    ELSE LET agentId == st.tasks[taskId].assignedAgent
             st1 == [st EXCEPT !.locks = releaseTaskLocks(@, taskId),
                               !.tasks[taskId].status = "pending",
                               !.tasks[taskId].assignedAgent = NoAgent,
                               !.taskQueue = Unshift(@, taskId)]
             st2 == IF /\ agentId # NoAgent
                       /\ agentId \in DOMAIN st.agents
                       /\ st.agents[agentId].currentTask = taskId
                    THEN [st1 EXCEPT !.agents[agentId].status = "idle",
                                     !.agents[agentId].currentTask = NoTask]
                    ELSE st1
         IN saveState(st2)

unregisterAgent(st, agentId) ==
    IF agentId \notin DOMAIN st.agents THEN st
    ELSE LET st1 == [st EXCEPT !.locks = releaseAllLocks(@, agentId)]
             st2 == IF st.agents[agentId].currentTask # NoTask
                    THEN unassignTask(st1, st.agents[agentId].currentTask)
                    ELSE st1
         IN saveState([st2 EXCEPT !.agents = DelKey(@, agentId),
                                  !.agentOrder = SelectSeq(@, LAMBDA a : a # agentId)])

----------------------------------------------------------------------------
(* TaskServer: the periodic tick *)

handleAgentMessage(st, agentId, m, t) ==
    CASE m.type = "AGENT_HEARTBEAT" -> updateHeartbeat(st, agentId, m.status, t)
      [] m.type = "TASK_UPDATE" -> st
      [] m.type = "TASK_COMPLETE" -> completeTask(st, m.taskId, agentId, t)
      [] m.type = "TASK_FAILED" -> failTask(st, m.taskId, agentId, m.error, t)
      [] m.type = "LOCK_REQUEST" ->
            LET r == acquireLocks(st.locks, [agentId |-> m.agentId, taskId |-> m.taskId,
                                             paths |-> m.paths, lockType |-> m.lockType,
                                             timeoutMs |-> m.timeoutMs], t)
            IN [st EXCEPT !.locks = r.locks,
                          !.inbox = sendToAgent(@, agentId,
                                      [Msg("LOCK_RESPONSE", t) EXCEPT
                                          !.success = r.result.success,
                                          !.acquired = r.result.acquired,
                                          !.failed = r.result.failed,
                                          !.correlationId = m.id])]
      [] m.type = "LOCK_RELEASE" ->
            [st EXCEPT !.locks = releaseLocks(@, agentId, m.paths)]
      [] m.type = "AGENT_DISCONNECT" -> unregisterAgent(st, agentId)
      [] OTHER -> st

RECURSIVE handleBatch(_, _, _, _, _)
handleBatch(st, agentId, msgs, i, t) ==
    IF i > Len(msgs) THEN st
    ELSE CHOOSE r \in {handleBatch(s1, agentId, msgs, i + 1, t) :
                          s1 \in {handleAgentMessage(st, agentId, msgs[i], t)}} : TRUE

\* for (agentId of Object.keys(state.agents)): the keys are taken once, up front
RECURSIVE processLoop(_, _, _, _, _)
processLoop(st, ob, ids, k, t) ==
    IF k > Len(ids) THEN st
    ELSE CHOOSE r \in {processLoop(s1, ob, ids, k + 1, t) :
                          s1 \in {handleBatch(st, ids[k], ob[ids[k]], 1, t)}} : TRUE

processAgentMessages(st, ob, t) == processLoop(st, ob, st.agentOrder, 1, t)

\* readOutbox unlinks every file it read
drainOutboxes(ob, ids) == [a \in DOMAIN ob |-> IF Contains(ids, a) THEN <<>> ELSE ob[a]]

RECURSIVE heartbeatLoop(_, _, _, _)
heartbeatLoop(st, ids, k, t) ==
    IF k > Len(ids) THEN st
    ELSE LET a == ids[k]
             st1 == [st EXCEPT !.agents[a].status = "offline"]
             st2 == IF st.agents[a].currentTask # NoTask
                    THEN unassignTask(st1, st.agents[a].currentTask)
                    ELSE st1
             st3 == [st2 EXCEPT !.locks = releaseAllLocks(@, a)]
         IN IF t - st.agents[a].lastHeartbeat > HeartbeatTimeout
            THEN heartbeatLoop(st3, ids, k + 1, t)
            ELSE heartbeatLoop(st, ids, k + 1, t)

checkAgentHeartbeats(st, t) == heartbeatLoop(st, st.agentOrder, 1, t)

RECURSIVE cleanupLoop(_, _, _, _)
cleanupLoop(st, ids, k, t) ==
    IF k > Len(ids) THEN st
    ELSE LET a == ids[k]
         IN IF t - st.agents[a].lastHeartbeat > StaleAgentMs
            THEN cleanupLoop([st EXCEPT !.agents = DelKey(@, a),
                                        !.agentOrder = SelectSeq(@, LAMBDA x : x # a),
                                        !.locks = releaseAllLocks(@, a)],
                             ids, k + 1, t)
            ELSE cleanupLoop(st, ids, k + 1, t)

cleanupDisconnectedAgents(st, t) == cleanupLoop(st, st.agentOrder, 1, t)

getIdleAgents(st) == SelectSeq(st.agentOrder, LAMBDA a : st.agents[a].status = "idle")

getPendingTasks(st) ==
    SelectSeq(st.taskQueue, LAMBDA id : id \in DOMAIN st.tasks /\ st.tasks[id].status = "pending")

priorityOrder(p) ==
    CASE p = "critical" -> 0 [] p = "high" -> 1 [] p = "normal" -> 2 [] p = "low" -> 3

\* the pending tasks left in queue order
unsortedPending(T, ids, rank) == ids

\* Array.prototype.sort is stable: equal priorities keep their queue order
RECURSIVE sortByPriority(_, _, _)
sortByPriority(T, ids, rank) ==
    IF rank > 3 THEN <<>>
    ELSE SelectSeq(ids, LAMBDA id : priorityOrder(T[id].priority) = rank)
         \o sortByPriority(T, ids, rank + 1)

\* the inner for-loop: returns the state and the (spliced) pendingTasks
RECURSIVE tryTasks(_, _, _, _, _)
tryTasks(st, agentId, pending, i, t) ==
    IF i > Len(pending) THEN [st |-> st, pending |-> pending]
    ELSE IF st.tasks[pending[i]].blockedBy # <<>>
         THEN tryTasks(st, agentId, pending, i + 1, t)
         ELSE LET r == assignTask(st, pending[i], agentId, t)
              IN IF r.ok THEN [st |-> r.st, pending |-> RemoveAt(pending, i)]
                 ELSE tryTasks(r.st, agentId, pending, i + 1, t)

RECURSIVE assignLoop(_, _, _, _, _)
assignLoop(st, idle, k, pending, t) ==
    IF k > Len(idle) \/ pending = <<>> THEN st
    ELSE CHOOSE x \in {assignLoop(r.st, idle, k + 1, r.pending, t) :
                          r \in {tryTasks(st, idle[k], pending, 1, t)}} : TRUE

autoAssignTasks(st, t) ==
    assignLoop(st, getIdleAgents(st), 1, sortByPriority(st.tasks, getPendingTasks(st), 0), t)

\* the setInterval callback of startWatching (config.autoAssign is true)
\* (each step works on the state its predecessor left, bound once as s1, s2)
tick(st, ob, t) ==
    CHOOSE r \in {autoAssignTasks(s2, t) :
                     s2 \in {checkAgentHeartbeats(s1, t) :
                                s1 \in {processAgentMessages(st, ob, t)}}} : TRUE

\* new TaskServer(config) followed by initialize()
initialize(st, t) ==
    LET loaded == IF st.stateFile.exists
                  THEN [st EXCEPT !.agents = st.stateFile.agents,
                                  !.agentOrder = st.stateFile.agentOrder,
                                  !.tasks = st.stateFile.tasks,
                                  !.taskQueue = st.stateFile.taskQueue,
                                  !.completedTasks = st.stateFile.completedTasks]
                  ELSE [st EXCEPT !.agents = createInitialState.agents,
                                  !.agentOrder = createInitialState.agentOrder,
                                  !.tasks = createInitialState.tasks,
                                  !.taskQueue = createInitialState.taskQueue,
                                  !.completedTasks = createInitialState.completedTasks]
    IN saveState(cleanupDisconnectedAgents([loaded EXCEPT !.locks = loadLocks(@, t)], t))

----------------------------------------------------------------------------
(* FileMessageQueue: directory listings *)

\* readInbox / readOutbox list the files sorted by name, "<timestamp>-<id>.json"
\* with id = "<timestamp>-<random>": messages of different milliseconds come in
\* timestamp order, messages of the same millisecond in the order of their
\* random suffixes, which is any order.
Perms(n) == {f \in [1..n -> 1..n] : \A i, j \in 1..n : f[i] = f[j] => i = j}

SortedListings(q) ==
    {[i \in 1..Len(q) |-> q[f[i]]] : f \in
        {g \in Perms(Len(q)) : \A i, j \in 1..Len(q) :
                                  i < j => q[g[i]].timestamp <= q[g[j]].timestamp}}

\* one listing per outbox
OutboxListings(ob) == {f \in [DOMAIN ob -> UNION {SortedListings(ob[a]) : a \in DOMAIN ob}] :
                          \A a \in DOMAIN ob : f[a] \in SortedListings(ob[a])}

sendToOutbox(ob, agentId, m) == [ob EXCEPT ![agentId] = Append(@, m)]

----------------------------------------------------------------------------
(* AgentClient *)

\* what requestLocks returned: the request the call was for, the
\* correlationId of the LOCK_RESPONSE it returned (0 for the failure it makes
\* up after its last poll) and the result's success flag
NoResult == [request |-> 0, correlationId |-> 0, success |-> FALSE]

NoClient ==
    [phase |-> "none", status |-> "idle", currentTask |-> NoTask, rest |-> <<>>,
     requests |-> 0, awaiting |-> 0, lockResult |-> NoResult]

\* the inner for-loop of requestLocks over one batch: the first LOCK_RESPONSE
\* ends the call, the messages before it go to handleMessage
RECURSIVE lockWaitLoop(_, _, _)
lockWaitLoop(msgs, i, dispatched) ==
    IF i > Len(msgs) THEN [returned |-> FALSE, at |-> 0, dispatched |-> dispatched]
    ELSE IF msgs[i].type = "LOCK_RESPONSE"
         THEN [returned |-> TRUE, at |-> i, dispatched |-> dispatched]
         ELSE lockWaitLoop(msgs, i + 1, Append(dispatched, msgs[i]))

\* the for-loop of checkMessages over one batch, up to the first await of a
\* task callback: returns the client, its outbox and what the loop has left
RECURSIVE clientLoop(_, _, _, _, _, _)
clientLoop(c, ob, agentId, msgs, i, t) ==
    IF i > Len(msgs) THEN [c |-> [c EXCEPT !.rest = <<>>], ob |-> ob]
    ELSE IF msgs[i].type = "TASK_ASSIGN" /\ c.currentTask = NoTask
         THEN \* acceptTask, then the callback runs: the loop is suspended
              [c |-> [c EXCEPT !.currentTask = msgs[i].taskId, !.status = "working",
                               !.rest = SubSeq(msgs, i + 1, Len(msgs))],
               ob |-> sendToOutbox(ob, agentId,
                         [Msg("TASK_UPDATE", t) EXCEPT !.taskId = msgs[i].taskId,
                                                       !.status = "in_progress"])]
         ELSE clientLoop(c, ob, agentId, msgs, i + 1, t)

\* the number of messages clientLoop posts on this batch
acceptsOne(c, msgs) ==
    IF c.currentTask = NoTask /\ \E i \in 1..Len(msgs) : msgs[i].type = "TASK_ASSIGN"
    THEN 1 ELSE 0

----------------------------------------------------------------------------
(* StateManager: the lockfile protocol of updateState *)

NoLockFile == [exists |-> FALSE, mtimeMs |-> 0, pid |-> NoAgent]

\* a process that has not called updateState
IdleWriter == [pc |-> "idle", startTime |-> 0, currentState |-> NoFile, result |-> "none"]

\* the updater AgentClient.register hands to updateState
registerUpdater(state, agentId, t) ==
    LET base == IF state.exists THEN state ELSE [NoFile EXCEPT !.exists = TRUE]
    IN [base EXCEPT !.agents = SetKey(@, agentId, newAgent(t)),
                    !.agentOrder = IF agentId \in DOMAIN base.agents THEN @
                                   ELSE Append(@, agentId)]

\* one turn of the while-loop of acquireLock, up to its exclusive create:
\* the loop ends when the wait has lasted timeoutMs, the create succeeds when
\* no lockfile exists, and otherwise the catch branch goes on to stat
acquireLock(w, lf, p, t) ==
    IF ~(t - w.startTime < LockWaitMs)
    THEN [w |-> [w EXCEPT !.pc = "done", !.result = "false"], lf |-> lf]
    ELSE IF ~lf.exists
         THEN [w |-> [w EXCEPT !.pc = "read"],
               lf |-> [exists |-> TRUE, mtimeMs |-> t, pid |-> p]]
         ELSE [w |-> [w EXCEPT !.pc = "stat"], lf |-> lf]

\* the catch branch of acquireLock: stat of the lockfile and the age test
statLock(w, lf, t) ==
    IF ~lf.exists THEN [w EXCEPT !.pc = "create"]
    ELSE IF t - lf.mtimeMs > StaleLockMs THEN [w EXCEPT !.pc = "unlink"]
    ELSE [w EXCEPT !.pc = "sleep"]

\* releaseLock, and the unlink of a lockfile found stale: the file at the
\* lock path goes, whoever created it
releaseLock(lf) == NoLockFile

\* the processes between a successful acquireLock and their releaseLock
InSection == {p \in Agents : writers[p].pc \in {"read", "write", "release"}}

----------------------------------------------------------------------------
(* shared/config.ts *)

Absent == -1
NoValue == "absent"

DEFAULT_CONFIG ==
    [maxAgents |-> MaxAgents, heartbeatInterval |-> HeartbeatInterval,
     heartbeatTimeout |-> HeartbeatTimeout, lockTimeout |-> LockTimeout,
     taskTimeout |-> TaskTimeout, autoAssign |-> TRUE, gitIntegration |-> TRUE,
     branchPrefix |-> "agent/"]

\* no AGENT_* variable is set
NoEnv ==
    [AGENT_MAX_AGENTS |-> "", AGENT_HEARTBEAT_INTERVAL |-> "",
     AGENT_HEARTBEAT_TIMEOUT |-> "", AGENT_AUTO_ASSIGN |-> "",
     AGENT_GIT_INTEGRATION |-> "", AGENT_BRANCH_PREFIX |-> ""]

\* a config.json without keys, or no config.json
NoFileConfig ==
    [maxAgents |-> Absent, heartbeatInterval |-> Absent, heartbeatTimeout |-> Absent,
     lockTimeout |-> Absent, taskTimeout |-> Absent, autoAssign |-> NoValue,
     gitIntegration |-> NoValue, branchPrefix |-> NoValue]

NoConfig == [loaded |-> FALSE, value |-> DEFAULT_CONFIG]

\* the environments the model draws from: a variable is unset ("") or set
Envs ==
    [AGENT_MAX_AGENTS : {"", "7"}, AGENT_HEARTBEAT_INTERVAL : {"", "7"},
     AGENT_HEARTBEAT_TIMEOUT : {"", "7"}, AGENT_AUTO_ASSIGN : {"", "false", "true"},
     AGENT_GIT_INTEGRATION : {"", "false"}, AGENT_BRANCH_PREFIX : {"", "env/"}]

\* the config.json files the model draws from: a key is absent or present
FileConfigs ==
    [maxAgents : {Absent, 3}, heartbeatInterval : {Absent, 3},
     heartbeatTimeout : {Absent, 3}, lockTimeout : {Absent, 3},
     taskTimeout : {Absent, 3}, autoAssign : {NoValue, "false"},
     gitIntegration : {NoValue, "false"}, branchPrefix : {NoValue, "file/"}]

\* parseInt on the strings of Envs; NaN is 0 here, as falsy as 0 is
parseInt(s) == IF s = "7" THEN 7 ELSE 0

\* a key of { ...DEFAULT_CONFIG, ...baseConfig }
spreadNumber(base, key) == IF base[key] = Absent THEN DEFAULT_CONFIG[key] ELSE base[key]

loadConfigFromEnv(e, baseConfig) ==
    [maxAgents |->
        IF parseInt(e.AGENT_MAX_AGENTS) # 0 THEN parseInt(e.AGENT_MAX_AGENTS)
        ELSE IF baseConfig.maxAgents \notin {Absent, 0} THEN baseConfig.maxAgents
        ELSE DEFAULT_CONFIG.maxAgents,
     heartbeatInterval |->
        IF parseInt(e.AGENT_HEARTBEAT_INTERVAL) # 0
        THEN parseInt(e.AGENT_HEARTBEAT_INTERVAL)
        ELSE DEFAULT_CONFIG.heartbeatInterval,
     heartbeatTimeout |->
        IF parseInt(e.AGENT_HEARTBEAT_TIMEOUT) # 0
        THEN parseInt(e.AGENT_HEARTBEAT_TIMEOUT)
        ELSE DEFAULT_CONFIG.heartbeatTimeout,
     lockTimeout |-> spreadNumber(baseConfig, "lockTimeout"),
     taskTimeout |-> spreadNumber(baseConfig, "taskTimeout"),
     autoAssign |-> e.AGENT_AUTO_ASSIGN # "false",
     gitIntegration |-> e.AGENT_GIT_INTEGRATION # "false",
     branchPrefix |->
        IF e.AGENT_BRANCH_PREFIX # "" THEN e.AGENT_BRANCH_PREFIX
        ELSE DEFAULT_CONFIG.branchPrefix]

\* JSON.parse of config.json, {} when there is none
loadConfigFromFile(f) == f

loadConfig(e, f) == loadConfigFromEnv(e, loadConfigFromFile(f))

----------------------------------------------------------------------------
(* The state machine *)

St == [agents |-> agents, agentOrder |-> agentOrder, tasks |-> tasks,
       taskQueue |-> taskQueue, completedTasks |-> completedTasks, locks |-> locks,
       inbox |-> inbox, stateFile |-> stateFile]

Apply(st) ==
    /\ agents' = st.agents
    /\ agentOrder' = st.agentOrder
    /\ tasks' = st.tasks
    /\ taskQueue' = st.taskQueue
    /\ completedTasks' = st.completedTasks
    /\ locks' = st.locks
    /\ inbox' = st.inbox
    /\ stateFile' = st.stateFile

\* a coordinator started on an empty project: constructor, initialize()
Init ==
    /\ now = 0
    /\ ticks = 0
    /\ agents = createInitialState.agents
    /\ agentOrder = createInitialState.agentOrder
    /\ tasks = createInitialState.tasks
    /\ taskQueue = createInitialState.taskQueue
    /\ completedTasks = createInitialState.completedTasks
    /\ locks = <<>>
    /\ inbox = [a \in Agents |-> <<>>]
    /\ outbox = [a \in Agents |-> <<>>]
    /\ stateFile = [NoFile EXCEPT !.exists = TRUE]
    /\ client = [a \in Agents |-> NoClient]
    /\ lockFile = NoLockFile
    /\ writers = [p \in Agents |-> IdleWriter]
    /\ passes = <<>>
    /\ env = NoEnv
    /\ fileConfig = NoFileConfig
    /\ config = NoConfig

\* the counters of the state stay within the bounds of the model
WithinBoundsOf(st, maxCount, maxInbox) ==
    /\ \A id \in DOMAIN st.tasks : st.tasks[id].attempts <= MaxAttemptsSeen
    /\ Len(st.completedTasks) <= MaxHistory
    /\ Len(st.taskQueue) <= MaxTasks + 1
    /\ \A a \in DOMAIN st.agents : /\ st.agents[a].completedTasks <= maxCount
                                   /\ st.agents[a].failedTasks <= maxCount
    /\ \A a \in DOMAIN st.inbox : Len(st.inbox[a]) <= maxInbox

WithinBounds(st) == WithinBoundsOf(st, MaxCount, MaxInbox)

CoordinatorOf(st, maxCount, maxInbox) ==
    /\ WithinBoundsOf(st, maxCount, maxInbox)
    /\ Apply(st)
    /\ UNCHANGED <<aux, now, ticks, outbox, client>>

Coordinator(st) == CoordinatorOf(st, MaxCount, MaxInbox)

AdvanceBy(steps) ==
    /\ ticks < MaxTicks
    /\ \E d \in steps : now' = now + d
    /\ ticks' = ticks + 1
    /\ UNCHANGED <<aux, agents, agentOrder, tasks, taskQueue, completedTasks, locks,
                   inbox, outbox, stateFile, client>>

\* the clock passes a heartbeat deadline
HeartbeatLapse == AdvanceBy({HeartbeatInterval, HeartbeatTimeout + 1})

\* the clock passes a lock lease
LeaseLapse == AdvanceBy({LockTimeout + 1})

RegisterAgent == \E a \in Agents : Coordinator(registerAgent(St, a, now))

\* registerAgent for an id the registry does not hold yet
RegisterNewAgent == \E a \in Agents \ DOMAIN agents : Coordinator(registerAgent(St, a, now))

UnregisterAgent == \E a \in DOMAIN agents : Coordinator(unregisterAgent(St, a))

UpdateHeartbeat ==
    \E a \in DOMAIN agents, s \in {"idle", "working"} :
        Coordinator(updateHeartbeat(St, a, s, now))

\* a heartbeat that reports the status the coordinator already has
KeepAlive ==
    \E a \in DOMAIN agents : Coordinator(updateHeartbeat(St, a, agents[a].status, now))

CreateTaskOf(max, P, F, D) ==
    /\ Cardinality(DOMAIN tasks) < max
    /\ \E p \in P, f \in F, d \in D : Coordinator(createTask(St, p, f, d))

\* a task on some files, of the default priority, without dependencies
CreateOneTask == CreateTaskOf(MaxApiTasks, {"normal"}, FileChoices, {<<>>})

\* a task without target files
CreatePlainTask == CreateTaskOf(MaxTasks, {"normal"}, {<<>>}, {<<>>})

\* a task that edits the file x
CreateFileTask == CreateTaskOf(MaxTasks, {"normal"}, {<<"x">>}, {<<>>})

\* the values --depends can carry: ids of tasks that exist (an id may be
\* repeated), or an id that names no task
DepChoices ==
    {<<>>, <<GhostTask>>} \cup {<<p>> : p \in DOMAIN tasks} \cup {<<p, p>> : p \in DOMAIN tasks}

\* a task with or without a target file
CreateAnyTask == CreateTaskOf(MaxTasks, {"normal"}, FileChoices, {<<>>})

\* a task that depends on others
CreateDepTask == CreateTaskOf(MaxTasks, {"normal"}, {<<>>}, DepChoices)

\* a task of any priority, with or without a target file, that may depend on
\* a task that exists
CreatePrioTask ==
    CreateTaskOf(MaxTasks, AllPriorities, FileChoices,
                 {<<>>} \cup {<<p>> : p \in DOMAIN tasks})

\* the lease lengths of the lock table stay near the values the inputs give
LeaseBounds(L) ==
    \A p \in DOMAIN L :
        LET d == L[p].expiresAt - L[p].lockedAt
        IN \/ d \in (0 - MaxDrift)..MaxDrift
           \/ d \in (LockTimeout - MaxDrift)..(LockTimeout + MaxDrift)

\* an operation of the LockManager on its own
LockOp(L) ==
    /\ LeaseBounds(L)
    /\ locks' = L
    /\ UNCHANGED <<aux, now, ticks, agents, agentOrder, tasks, taskQueue, completedTasks,
                   inbox, outbox, stateFile, client>>

LockRequests ==
    [agentId : Agents, taskId : {NoTask}, paths : PathChoices, lockType : LockTypes,
     timeoutMs : TimeoutChoices]

AcquireLocks == \E req \in LockRequests : LockOp(acquireLocks(locks, req, now).locks)

\* a request with the default lease or a lease of one millisecond
AcquireLeased ==
    \E req \in {q \in LockRequests : q.timeoutMs >= 0} :
        LockOp(acquireLocks(locks, req, now).locks)

ReleaseLocks == \E a \in Agents, ps \in PathChoices : LockOp(releaseLocks(locks, a, ps))

ReleaseAllLocks == \E a \in Agents : LockOp(releaseAllLocks(locks, a))

ExtendLock ==
    \E a \in Agents, ps \in PathChoices, ms \in ExtendChoices :
        LockOp(extendLock(locks, a, ps[1], ms).locks)

ForceRelease == \E ps \in PathChoices : LockOp(forceRelease(locks, ps[1]))

GetAllLocks == LockOp(getAllLocks(locks, now))

\* the clock moves on by a millisecond
Millisecond == AdvanceBy({1})

\* an agent process without a task callback polls its inbox: readInbox unlinks
\* the files and handleMessage does nothing with them
ReadInbox ==
    \E a \in Agents :
        /\ inbox[a] # <<>>
        /\ inbox' = [inbox EXCEPT ![a] = <<>>]
        /\ UNCHANGED <<aux, now, ticks, agents, agentOrder, tasks, taskQueue,
                       completedTasks, locks, outbox, stateFile, client>>

AssignTask ==
    \E id \in DOMAIN tasks, a \in Agents : Coordinator(assignTask(St, id, a, now).st)

StartTask ==
    \E id \in DOMAIN tasks, a \in Agents : Coordinator(startTask(St, id, a, now))

CompleteTask ==
    \E id \in DOMAIN tasks, a \in Agents : Coordinator(completeTask(St, id, a, now))

FailTask ==
    \E id \in DOMAIN tasks, a \in Agents : Coordinator(failTask(St, id, a, "boom", now))

UnassignTask == \E id \in DOMAIN tasks : Coordinator(unassignTask(St, id))

Initialize == Coordinator(initialize(St, now))

Tick ==
    \E ob \in OutboxListings(outbox) : \E st \in {tick(St, ob, now)} :
        /\ WithinBounds(st)
        /\ Apply(st)
        /\ outbox' = drainOutboxes(outbox, agentOrder)
        /\ UNCHANGED <<aux, now, ticks, client>>

ClientRegister ==
    \E a \in ClientIds :
        /\ client[a].phase = "none"
        /\ Len(outbox[a]) < MaxOutbox
        /\ client' = [client EXCEPT ![a] = [NoClient EXCEPT !.phase = "registered"]]
        /\ stateFile' = registerUpdater(stateFile, a, now)
        /\ outbox' = sendToOutbox(outbox, a, Msg("AGENT_REGISTER", now))
        /\ UNCHANGED <<aux, now, ticks, agents, agentOrder, tasks, taskQueue,
                       completedTasks, locks, inbox>>

ClientStart ==
    \E a \in ClientIds :
        /\ client[a].phase = "registered"
        /\ client[a].awaiting = 0
        /\ client' = [client EXCEPT ![a].phase = "running"]
        /\ UNCHANGED <<aux, now, ticks, agents, agentOrder, tasks, taskQueue,
                       completedTasks, locks, inbox, outbox, stateFile>>

ClientHeartbeat ==
    \E a \in ClientIds :
        /\ client[a].phase = "running"
        /\ Len(outbox[a]) < MaxOutbox
        /\ outbox' = sendToOutbox(outbox, a,
                        [Msg("AGENT_HEARTBEAT", now) EXCEPT !.status = client[a].status,
                                                            !.taskId = client[a].currentTask])
        /\ stateFile' = IF stateFile.exists /\ a \in DOMAIN stateFile.agents
                        THEN [stateFile EXCEPT !.agents[a].lastHeartbeat = now,
                                               !.agents[a].status = client[a].status]
                        ELSE stateFile
        /\ UNCHANGED <<aux, now, ticks, agents, agentOrder, tasks, taskQueue,
                       completedTasks, locks, inbox, client>>

ClientCheckMessages ==
    \E a \in ClientIds :
        /\ client[a].phase = "running"
        /\ inbox[a] # <<>>
        /\ \E batch \in SortedListings(inbox[a]) :
              /\ Len(outbox[a]) + acceptsOne(client[a], batch) <= MaxOutbox
              /\ LET r == clientLoop(client[a], outbox, a, batch, 1, now)
                     \* a batch read while a callback runs is handled at once and
                     \* leaves the suspended loop's remainder alone
                     c2 == IF client[a].currentTask # NoTask
                           THEN [r.c EXCEPT !.rest = client[a].rest] ELSE r.c
                 IN /\ client' = [client EXCEPT ![a] = c2]
                    /\ outbox' = r.ob
        /\ inbox' = [inbox EXCEPT ![a] = <<>>]
        /\ UNCHANGED <<aux, now, ticks, agents, agentOrder, tasks, taskQueue,
                       completedTasks, locks, stateFile>>

\* the task callback returns (ok) or throws: completeTask / failTask, then the
\* suspended loop goes on with the rest of its batch
ClientFinish ==
    \E a \in ClientIds, ok \in BOOLEAN :
        /\ client[a].currentTask # NoTask
        /\ LET done == [client[a] EXCEPT !.currentTask = NoTask, !.status = "idle"]
               sent == sendToOutbox(outbox, a,
                          IF ok THEN [Msg("TASK_COMPLETE", now) EXCEPT
                                         !.taskId = client[a].currentTask]
                          ELSE [Msg("TASK_FAILED", now) EXCEPT
                                         !.taskId = client[a].currentTask,
                                         !.error = "boom"])
               r == clientLoop(done, sent, a, client[a].rest, 1, now)
           IN /\ Len(outbox[a]) + 1 + acceptsOne(done, client[a].rest) <= MaxOutbox
              /\ client' = [client EXCEPT ![a] = r.c]
              /\ outbox' = r.ob
        /\ UNCHANGED <<aux, now, ticks, agents, agentOrder, tasks, taskQueue,
                       completedTasks, locks, inbox, stateFile>>

ClientStop ==
    \E a \in ClientIds :
        /\ client[a].phase = "running"
        /\ Len(outbox[a]) < MaxOutbox
        /\ client' = [client EXCEPT ![a].phase = "stopped"]
        /\ outbox' = sendToOutbox(outbox, a,
                        [Msg("AGENT_DISCONNECT", now) EXCEPT !.agentId = a])
        /\ UNCHANGED <<aux, now, ticks, agents, agentOrder, tasks, taskQueue,
                       completedTasks, locks, inbox, stateFile>>

\* The coordinator's public operations, called in any order at one instant
Next ==
    \/ RegisterAgent
    \/ UnregisterAgent
    \/ UpdateHeartbeat
    \/ CreateOneTask
    \/ AssignTask
    \/ StartTask
    \/ CompleteTask
    \/ FailTask
    \/ UnassignTask
    \/ Initialize
    \/ Tick
    \/ ReadInbox

Spec == Init /\ [][Next]_vars

\* Lock leases: assignments, heartbeats that keep the agents alive, the clock,
\* restarts of the coordinator
NextLease ==
    \/ LeaseLapse
    \/ RegisterAgent
    \/ KeepAlive
    \/ CreateFileTask
    \/ AssignTask
    \/ Initialize
    \/ Tick
    \/ ReadInbox

SpecLease == Init /\ [][NextLease]_vars

\* The heartbeat watchdog: agents that fall silent while the tick runs
NextWatch ==
    \/ HeartbeatLapse
    \/ RegisterAgent
    \/ UpdateHeartbeat
    \/ CreatePlainTask
    \/ Tick
    \/ ReadInbox

SpecWatch == Init /\ [][NextWatch]_vars

\* A running coordinator's tick against an AgentClient process, at one instant
NextSys ==
    \/ CreatePlainTask
    \/ RegisterNewAgent
    \/ Tick
    \/ ClientRegister
    \/ ClientStart
    \/ ClientHeartbeat
    \/ ClientCheckMessages
    \/ ClientFinish
    \/ ClientStop

SpecSys == Init /\ [][NextSys]_vars

\* startWatching: setInterval keeps running the tick
SpecSysFair == SpecSys /\ WF_vars(Tick)

\* Dependencies: tasks that wait for others, assigned by hand and by the tick
NextDeps ==
    \/ CreateDepTask
    \/ RegisterNewAgent
    \/ AssignTask
    \/ CompleteTask
    \/ FailTask
    \/ Tick
    \/ ReadInbox

SpecDeps == Init /\ [][NextDeps]_vars

\* Scheduling: the tick hands tasks of all priorities to the idle agents
NextPrio ==
    \/ CreatePrioTask
    \/ RegisterNewAgent
    \/ CompleteTask
    \/ Tick
    \/ ReadInbox

SpecPrio == Init /\ [][NextPrio]_vars

\* Assignment against the lock table: tasks on the same file, assigned by
\* hand while leases run and run out
NextConflict ==
    \/ CreateAnyTask
    \/ RegisterNewAgent
    \/ AssignTask
    \/ CompleteTask
    \/ LeaseLapse
    \/ ReadInbox

SpecConflict == Init /\ [][NextConflict]_vars

\* The LockManager on its own: requests, releases and extensions as time passes
NextLocks ==
    \/ Millisecond
    \/ AcquireLocks
    \/ ReleaseLocks
    \/ ReleaseAllLocks
    \/ GetAllLocks
    \/ ForceRelease
    \/ ExtendLock

SpecLocks == Init /\ [][NextLocks]_vars

\* Leases that run out: requests with non-negative leases, releases, listings
NextLeaseClock ==
    \/ Millisecond
    \/ AcquireLeased
    \/ ReleaseLocks
    \/ GetAllLocks

SpecLeaseClock == Init /\ [][NextLeaseClock]_vars

----------------------------------------------------------------------------
(* Two processes in StateManager.updateState, one file operation per step *)

\* a step of process p on the lockfile and the state file
WriterStep(p, w, lf, sf) ==
    /\ writers' = [writers EXCEPT ![p] = w]
    /\ lockFile' = lf
    /\ stateFile' = sf
    /\ UNCHANGED <<now, ticks, agents, agentOrder, tasks, taskQueue, completedTasks,
                   locks, inbox, outbox, client, passes, env, fileConfig, config>>

\* AgentClient.register calls updateState: acquireLock notes its start time
\* and makes the first turn of its loop
UpdateState ==
    \E p \in Agents :
        /\ writers[p].pc = "idle"
        /\ LET r == acquireLock([writers[p] EXCEPT !.startTime = now], lockFile, p, now)
           IN WriterStep(p, r.w, r.lf, stateFile)

\* a later turn: the test of the while-loop and the exclusive create
AcquireLock ==
    \E p \in Agents :
        /\ writers[p].pc = "create"
        /\ LET r == acquireLock(writers[p], lockFile, p, now)
           IN WriterStep(p, r.w, r.lf, stateFile)

\* the create failed: stat of the lockfile
StatLock ==
    \E p \in Agents :
        /\ writers[p].pc = "stat"
        /\ WriterStep(p, statLock(writers[p], lockFile, now), lockFile, stateFile)

\* the lockfile was found older than 30 s: unlink it and try again
UnlinkStaleLock ==
    \E p \in Agents :
        /\ writers[p].pc = "unlink"
        /\ WriterStep(p, [writers[p] EXCEPT !.pc = "create"], releaseLock(lockFile),
                      stateFile)

\* the lockfile was found young: the 50 ms sleep before the next turn
SleepAndRetry ==
    \E p \in Agents :
        /\ writers[p].pc = "sleep"
        /\ ticks < MaxTicks
        /\ now' = now + LockPollMs
        /\ ticks' = ticks + 1
        /\ writers' = [writers EXCEPT ![p].pc = "create"]
        /\ UNCHANGED <<agents, agentOrder, tasks, taskQueue, completedTasks, locks, inbox,
                       outbox, stateFile, client, lockFile, passes, env, fileConfig,
                       config>>

\* readState under the lock
ReadState ==
    \E p \in Agents :
        /\ writers[p].pc = "read"
        /\ WriterStep(p, [writers[p] EXCEPT !.pc = "write", !.currentState = stateFile],
                      lockFile, stateFile)

\* the updater, the write of the temp file and its rename over the state file
WriteState ==
    \E p \in Agents :
        /\ writers[p].pc = "write"
        /\ WriterStep(p, [writers[p] EXCEPT !.pc = "release"], lockFile,
                      registerUpdater(writers[p].currentState, p, now))

\* the finally block: releaseLock, then updateState returns true
ReleaseLock ==
    \E p \in Agents :
        /\ writers[p].pc = "release"
        /\ WriterStep(p, [writers[p] EXCEPT !.pc = "done", !.result = "true"],
                      releaseLock(lockFile), stateFile)

\* a process is held up: the clock passes the wait of acquireLock or the
\* age at which a lockfile counts as stale
WriterStalls == AdvanceBy({LockWaitMs, StaleLockMs + 1})

NextStateLock ==
    \/ UpdateState
    \/ AcquireLock
    \/ StatLock
    \/ UnlinkStaleLock
    \/ SleepAndRetry
    \/ ReadState
    \/ WriteState
    \/ ReleaseLock
    \/ WriterStalls

SpecStateLock == Init /\ [][NextStateLock]_vars

----------------------------------------------------------------------------
(* createTask, then assignTask and failTask by the assigned agent *)

\* error texts a failure report can carry
Errors == {"boom", "bang"}

\* a step of the coordinator where an agent may fail MaxFailures times
RetryStep(st) == CoordinatorOf(st, MaxFailures, MaxInbox)

RetryCreateTask ==
    /\ Cardinality(DOMAIN tasks) < MaxTasks
    /\ RetryStep(createTask(St, "normal", <<>>, <<>>))

RetryRegisterAgent == \E a \in Agents \ DOMAIN agents : RetryStep(registerAgent(St, a, now))

RetryAssignTask ==
    \E id \in DOMAIN tasks, a \in Agents : RetryStep(assignTask(St, id, a, now).st)

\* the agent a task is assigned to reports that the task failed
FailCurrentTask ==
    \E a \in DOMAIN agents :
        /\ agents[a].currentTask # NoTask
        /\ RetryStep(failTask(St, agents[a].currentTask, a, "boom", now))

NextRetry ==
    \/ RetryCreateTask
    \/ RetryRegisterAgent
    \/ RetryAssignTask
    \/ FailCurrentTask
    \/ ReadInbox

SpecRetry == Init /\ [][NextRetry]_vars

----------------------------------------------------------------------------
(* More agents than config.maxAgents *)

\* the ids of the agents that ask to register, one more than maxAgents
AgentRoster == <<"a1", "a2", "a3", "a4", "a5", "a6", "a7", "a8", "a9", "a10", "a11">>

\* the next agent of the roster registers
RegisterNextAgent ==
    LET k == Cardinality(DOMAIN agents) + 1
    IN /\ k <= Len(AgentRoster)
       /\ Coordinator(registerAgent(St, AgentRoster[k], now))

NextRegistry ==
    \/ RegisterNextAgent
    \/ UpdateHeartbeat

SpecRegistry == Init /\ [][NextRegistry]_vars

----------------------------------------------------------------------------
(* loadConfig on every environment and config.json of the input sets *)

InitConfig ==
    /\ now = 0
    /\ ticks = 0
    /\ agents = createInitialState.agents
    /\ agentOrder = createInitialState.agentOrder
    /\ tasks = createInitialState.tasks
    /\ taskQueue = createInitialState.taskQueue
    /\ completedTasks = createInitialState.completedTasks
    /\ locks = <<>>
    /\ inbox = [a \in Agents |-> <<>>]
    /\ outbox = [a \in Agents |-> <<>>]
    /\ stateFile = [NoFile EXCEPT !.exists = TRUE]
    /\ client = [a \in Agents |-> NoClient]
    /\ lockFile = NoLockFile
    /\ writers = [p \in Agents |-> IdleWriter]
    /\ passes = <<>>
    /\ env \in Envs
    /\ fileConfig \in FileConfigs
    /\ config = NoConfig

LoadConfig ==
    /\ ~config.loaded
    /\ config' = [loaded |-> TRUE, value |-> loadConfig(env, fileConfig)]
    /\ UNCHANGED <<now, ticks, agents, agentOrder, tasks, taskQueue, completedTasks,
                   locks, inbox, outbox, stateFile, client, lockFile, writers, passes,
                   env, fileConfig>>

NextConfig == LoadConfig

SpecConfig == InitConfig /\ [][NextConfig]_vars

----------------------------------------------------------------------------
(* The setInterval callback of startWatching, one outbox read per step *)

\* the rest of a pass once the last outbox is handled: checkAgentHeartbeats
\* and autoAssignTasks follow without file I/O in between
finishPass(st, t) == autoAssignTasks(checkAgentHeartbeats(st, t), t)

\* one turn of the for-loop of processAgentMessages: the messages readOutbox
\* returned for agentId are handled, and the pass ends after the last agent
passTurn(st, pass, msgs, t) ==
    LET handled == handleBatch(st, pass.ids[pass.k], msgs, 1, t)
    IN IF pass.k = Len(pass.ids) THEN finishPass(handled, t) ELSE handled

\* the timer fires: a new callback starts, takes Object.keys(state.agents)
\* and issues the readOutbox of the first agent. Nothing looks at whether an
\* earlier callback is still running, which can be the case once the
\* interval has passed since that callback fired. With no agent the callback
\* awaits no file I/O and changes nothing.
WatchIntervalFires ==
    /\ Len(passes) < MaxPasses
    /\ agentOrder # <<>>
    /\ \A i \in 1..Len(passes) : now - passes[i].firedAt >= HeartbeatInterval
    /\ passes' = Append(passes, [ids |-> agentOrder, k |-> 1, firedAt |-> now])
    /\ UNCHANGED <<now, ticks, agents, agentOrder, tasks, taskQueue, completedTasks,
                   locks, inbox, outbox, stateFile, client, lockFile, writers, env,
                   fileConfig, config>>

\* a readOutbox of some running callback returns: its messages are handled
\* and the callback goes on to the next agent, or to the end of its pass
PassContinues ==
    \E i \in 1..Len(passes) :
        LET pass == passes[i]
            a == pass.ids[pass.k]
        IN \E msgs \in SortedListings(outbox[a]) :
              LET st == passTurn(St, pass, msgs, now)
              IN /\ WithinBounds(st)
                 /\ Apply(st)
                 /\ outbox' = [outbox EXCEPT ![a] = <<>>]
                 /\ passes' = IF pass.k = Len(pass.ids) THEN RemoveAt(passes, i)
                              ELSE [passes EXCEPT ![i].k = @ + 1]
                 /\ UNCHANGED <<now, ticks, client, lockFile, writers, env, fileConfig,
                                config>>

NextTicks ==
    \/ RegisterNewAgent
    \/ CreatePlainTask
    \/ WatchIntervalFires
    \/ PassContinues
    \/ ClientRegister
    \/ ReadInbox
    \/ HeartbeatLapse

SpecTicks == Init /\ [][NextTicks]_vars

----------------------------------------------------------------------------
(* AgentClient.requestLocks and the coordinator's LOCK_RESPONSE *)

\* the path the i-th lock request of a client asks for
RequestPath(i) == IF i = 1 THEN "x" ELSE "y"

\* requestLocks posts LOCK_REQUEST and starts to wait. The caller is a
\* client that polls no inbox yet, or the task callback of a running client:
\* in both handleMessage starts no task.
ClientRequestLocks ==
    \E a \in ClientIds :
        /\ \/ client[a].phase = "registered"
           \/ client[a].phase = "running" /\ client[a].currentTask # NoTask
        /\ client[a].awaiting = 0
        /\ client[a].requests < MaxRequests
        /\ Len(outbox[a]) < MaxOutbox
        /\ client' = [client EXCEPT ![a].requests = @ + 1, ![a].awaiting = client[a].requests + 1]
        /\ outbox' = sendToOutbox(outbox, a,
                        [Msg("LOCK_REQUEST", now) EXCEPT
                            !.id = client[a].requests + 1,
                            !.agentId = a,
                            !.taskId = client[a].currentTask,
                            !.paths = <<RequestPath(client[a].requests + 1)>>,
                            !.lockType = "write"])
        /\ UNCHANGED <<aux, now, ticks, agents, agentOrder, tasks, taskQueue,
                       completedTasks, locks, inbox, stateFile>>

\* a poll of the wait loop finds messages: readInbox unlinks all of them
ClientLockPoll ==
    \E a \in ClientIds :
        /\ client[a].awaiting # 0
        /\ inbox[a] # <<>>
        /\ \E msgs \in SortedListings(inbox[a]) :
              LET r == lockWaitLoop(msgs, 1, <<>>)
              IN client' =
                    IF r.returned
                    THEN [client EXCEPT
                            ![a].awaiting = 0,
                            ![a].lockResult =
                                [request |-> client[a].awaiting,
                                 correlationId |-> msgs[r.at].correlationId,
                                 success |-> msgs[r.at].success]]
                    ELSE client
        /\ inbox' = [inbox EXCEPT ![a] = <<>>]
        /\ UNCHANGED <<aux, now, ticks, agents, agentOrder, tasks, taskQueue,
                       completedTasks, locks, outbox, stateFile>>

\* the twentieth poll finds no LOCK_RESPONSE either: requestLocks returns
\* { success: false }
ClientLockTimeout ==
    \E a \in ClientIds :
        /\ client[a].awaiting # 0
        /\ \A i \in 1..Len(inbox[a]) : inbox[a][i].type # "LOCK_RESPONSE"
        /\ client' = [client EXCEPT
                        ![a].awaiting = 0,
                        ![a].lockResult = [request |-> client[a].awaiting,
                                           correlationId |-> 0, success |-> FALSE]]
        /\ inbox' = [inbox EXCEPT ![a] = <<>>]
        /\ UNCHANGED <<aux, now, ticks, agents, agentOrder, tasks, taskQueue,
                       completedTasks, locks, outbox, stateFile>>

\* a tick that may leave two messages in an inbox
TickOnLockRequests ==
    \E ob \in OutboxListings(outbox) :
        /\ WithinBoundsOf(tick(St, ob, now), MaxCount, MaxLockInbox)
        /\ Apply(tick(St, ob, now))
        /\ outbox' = drainOutboxes(outbox, agentOrder)
        /\ UNCHANGED <<aux, now, ticks, client>>

NextLockWait ==
    \/ RegisterNewAgent
    \/ CreatePlainTask
    \/ TickOnLockRequests
    \/ ClientRegister
    \/ ClientStart
    \/ ClientCheckMessages
    \/ ClientRequestLocks
    \/ ClientLockPoll
    \/ ClientLockTimeout

SpecLockWait == Init /\ [][NextLockWait]_vars

----------------------------------------------------------------------------
(* assignTask on tasks with target files, beside locks agents took themselves *)

\* a task on no file, on one file in either spelling, or on two files
CreateFilesTask == CreateTaskOf(MaxTasks, {"normal"}, PathChoices \cup {<<>>}, {<<>>})

\* an agent takes locks of the default lease for itself
AcquireOwnLocks ==
    \E req \in {q \in LockRequests : q.timeoutMs = 0} :
        LockOp(acquireLocks(locks, req, now).locks)

NextAssign ==
    \/ CreateFilesTask
    \/ RegisterNewAgent
    \/ AssignTask
    \/ AcquireOwnLocks
    \/ ReadInbox

SpecAssign == Init /\ [][NextAssign]_vars

TypeOK ==
    /\ DOMAIN agents \subseteq Agents \cup Range(AgentRoster)
    /\ DOMAIN tasks \subseteq TaskIds
    /\ Range(agentOrder) = DOMAIN agents

----------------------------------------------------------------------------
(* Properties *)

Active(id) == tasks[id].status \in {"assigned", "in_progress"}

\* C1: no two different agents each hold an active (assigned or in_progress)
\* task whose targetFiles share a path.
C1_NoConcurrentEditors ==
    \A t1, t2 \in DOMAIN tasks :
        (/\ Active(t1) /\ Active(t2)
         /\ tasks[t1].assignedAgent # tasks[t2].assignedAgent
         /\ tasks[t1].assignedAgent # NoAgent /\ tasks[t2].assignedAgent # NoAgent)
        => Range(tasks[t1].targetFiles) \cap Range(tasks[t2].targetFiles) = {}

\* C2: every active task's assignedAgent is in the registry and that agent's
\* currentTask is the task.
C2_ActiveTaskHasItsAgent ==
    \A id \in DOMAIN tasks :
        Active(id) => /\ tasks[id].assignedAgent \in DOMAIN agents
                      /\ agents[tasks[id].assignedAgent].currentTask = id

\* C3: a task id is in taskQueue iff the task is pending, and a pending task
\* is in taskQueue exactly once.
C3_QueueIsThePendingTasks ==
    /\ \A id \in DOMAIN tasks : Contains(taskQueue, id) <=> tasks[id].status = "pending"
    /\ \A id \in DOMAIN tasks : tasks[id].status = "pending" => Count(taskQueue, id) = 1
    /\ Range(taskQueue) \subseteq DOMAIN tasks

\* C4: no two active tasks have the same assignedAgent.
C4_OneTaskPerAgent ==
    \A t1, t2 \in DOMAIN tasks :
        (Active(t1) /\ Active(t2) /\ t1 # t2)
        => tasks[t1].assignedAgent # tasks[t2].assignedAgent

\* C5: attempts never exceeds maxAttempts, and a failed task has used all of
\* its attempts.
C5_AttemptsBounded ==
    \A id \in DOMAIN tasks :
        /\ tasks[id].attempts <= tasks[id].maxAttempts
        /\ tasks[id].status = "failed" => tasks[id].attempts = tasks[id].maxAttempts

Silent(a) == now - agents[a].lastHeartbeat > HeartbeatTimeout

\* C6: after the heartbeat check, every agent silent for longer than
\* heartbeatTimeout is offline, its former task is pending at the front of the
\* queue with no assignedAgent, and the agent owns no lock.
C6_SilentAgentsAreOffline ==
    LET after == checkAgentHeartbeats(St, now)
    IN \A a \in DOMAIN agents :
          Silent(a) =>
             /\ after.agents[a].status = "offline"
             /\ agents[a].currentTask # NoTask =>
                   LET id == agents[a].currentTask
                   IN /\ after.tasks[id].status = "pending"
                      /\ after.tasks[id].assignedAgent = NoAgent
                      /\ after.taskQueue # <<>> /\ Head(after.taskQueue) = id
             /\ \A p \in DOMAIN after.locks : after.locks[p].agentId # a

\* C7: the tick that finds agent a silent while it holds task id leaves a
\* offline and does not give id to a again: id is pending, or assigned to
\* another agent with one more attempt.
C7_TimeoutAndRecovery ==
    [][\A a \in DOMAIN agents :
          (/\ Tick
           /\ Silent(a)
           /\ agents[a].currentTask # NoTask
           /\ tasks[agents[a].currentTask].assignedAgent = a)
          => LET id == agents[a].currentTask
             IN /\ agents'[a].status = "offline"
                /\ tasks'[id].assignedAgent # a
                /\ \/ tasks'[id].status = "pending"
                   \/ /\ tasks'[id].status = "assigned"
                      /\ tasks'[id].attempts = tasks[id].attempts + 1]_vars

\* C8: an agent that registered through AgentClient.register eventually is in
\* the coordinator's registry.
C8_RegisteredClientIsAdopted ==
    \A a \in ClientIds : (client[a].phase # "none") ~> (a \in DOMAIN agents)

\* the messages an agent can post about the tasks of the state
Redeliverable ==
    {[Msg(ty, now) EXCEPT !.taskId = id, !.error = "boom"] :
        ty \in {"TASK_COMPLETE", "TASK_FAILED"}, id \in DOMAIN tasks}
    \cup {[Msg("AGENT_HEARTBEAT", now) EXCEPT !.status = s] : s \in {"idle", "working"}}
    \cup {Msg(ty, now) : ty \in {"AGENT_REGISTER", "TASK_UPDATE", "AGENT_DISCONNECT"}}

\* what the coordinator keeps: everything but the messages it sent
Kept(st) == [st EXCEPT !.inbox = <<>>]

\* C9: handling a message twice leaves the coordinator in the state that
\* handling it once does.
C9_HandlersIdempotent ==
    \A a \in DOMAIN agents, m \in Redeliverable :
        LET once == handleAgentMessage(St, a, m, now)
        IN Kept(handleAgentMessage(once, a, m, now)) = Kept(once)

\* C10: completeTask(id, a) completes the task when it is active and assigned
\* to a, and leaves the task as it is in every other situation.
C10_CompleteOnlyActiveByOwner ==
    \A id \in DOMAIN tasks, a \in Agents :
        LET after == completeTask(St, id, a, now)
        IN IF Active(id) /\ tasks[id].assignedAgent = a
           THEN after.tasks[id].status = "completed"
           ELSE after.tasks[id] = tasks[id]

Terminal == {"completed", "failed", "cancelled"}

\* C11: once a task's status is completed, failed or cancelled, no step
\* changes its status or adds it to taskQueue.
C11_TerminalStatusImmutable ==
    [][\A id \in DOMAIN tasks :
          tasks[id].status \in Terminal =>
             /\ id \in DOMAIN tasks'
             /\ tasks'[id].status = tasks[id].status
             /\ Count(taskQueue', id) <= Count(taskQueue, id)]_vars

\* C12: no step moves a task to assigned while a task listed in its dependsOn
\* is not completed.
C12_AssignedOnlyWhenDepsCompleted ==
    [][\A id \in DOMAIN tasks :
          (/\ id \in DOMAIN tasks'
           /\ tasks[id].status # "assigned"
           /\ tasks'[id].status = "assigned")
          => \A d \in Range(tasks[id].dependsOn) :
                d \in DOMAIN tasks' => tasks'[d].status = "completed"]_vars

\* C13: a completed task has only completed tasks in its dependsOn.
C13_CompletedHasCompletedDeps ==
    \A id \in DOMAIN tasks :
        tasks[id].status = "completed" =>
            \A d \in Range(tasks[id].dependsOn) :
                d \in DOMAIN tasks /\ tasks[d].status = "completed"

\* C14: after completeTask(t, a) took effect, t is in the blockedBy of no
\* task that lists t in its dependsOn.
C14_CompletionUnblocksDependents ==
    \A t \in DOMAIN tasks, a \in Agents :
        tasks[t].assignedAgent = a =>
            LET after == completeTask(St, t, a, now)
            IN \A u \in DOMAIN tasks :
                  Contains(tasks[u].dependsOn, t) => ~Contains(after.tasks[u].blockedBy, t)

\* the tasks the pass gave to the idle agents before position k
TakenBefore(before, after, idle, k) ==
    {w \in DOMAIN before.tasks :
        /\ before.tasks[w].status = "pending"
        /\ after.tasks[w].status = "assigned"
        /\ \E j \in 1..(k-1) : after.tasks[w].assignedAgent = idle[j]}

\* task v touches a path locked for somebody else when agent idle[k] is served
ConflictAt(before, after, idle, k, v) ==
    LET swept == cleanExpiredLocks(before.locks, now)
    IN \E i \in 1..Len(before.tasks[v].targetFiles) :
          LET np == normalizePath(before.tasks[v].targetFiles[i])
          IN \/ np \in DOMAIN swept /\ swept[np].agentId # idle[k]
             \/ \E w \in TakenBefore(before, after, idle, k) :
                   \E n \in 1..Len(before.tasks[w].targetFiles) :
                       normalizePath(before.tasks[w].targetFiles[n]) = np

\* the pending tasks agent idle[k] can be given when it is served
EligibleAt(before, after, idle, k) ==
    {v \in Range(getPendingTasks(before)) \ TakenBefore(before, after, idle, k) :
        /\ before.tasks[v].blockedBy = <<>>
        /\ ~ConflictAt(before, after, idle, k, v)}

\* C15: in an auto-assign pass every idle agent, in registration order, gets
\* an eligible pending task of the best priority left (critical, high, normal,
\* low), and gets none only when no pending task is eligible for it.
C15_AssignsByPriority ==
    LET after == autoAssignTasks(St, now)
        idle == getIdleAgents(St)
    IN \A k \in 1..Len(idle) :
          LET elig == EligibleAt(St, after, idle, k)
              got == {u \in DOMAIN tasks : /\ tasks[u].status = "pending"
                                           /\ after.tasks[u].status = "assigned"
                                           /\ after.tasks[u].assignedAgent = idle[k]}
          IN /\ got \subseteq elig
             /\ elig # {} => Cardinality(got) = 1
             /\ \A u \in got, v \in elig :
                   priorityOrder(tasks[u].priority) <= priorityOrder(tasks[v].priority)

\* a pass gave a task to an agent and left an eligible task of lower priority,
\* created before it, pending
C15_Witness ==
    \E u, v \in DOMAIN tasks :
        /\ v < u
        /\ tasks[u].status = "assigned" /\ tasks[u].attempts = 1
        /\ tasks[v].status = "pending" /\ tasks[v].attempts = 0
        /\ tasks[v].blockedBy = <<>> /\ tasks[v].targetFiles = <<>>
        /\ priorityOrder(tasks[u].priority) < priorityOrder(tasks[v].priority)

\* task id names a path on which an agent other than a holds a lock that has
\* not run out
HeldByOther(id, a) ==
    \E i \in 1..Len(tasks[id].targetFiles) :
        LET np == normalizePath(tasks[id].targetFiles[i])
        IN /\ np \in DOMAIN locks
           /\ locks[np].agentId # a
           /\ locks[np].expiresAt > now

\* C16: assignTask(id, a) for a task with a path locked by another agent is
\* refused and leaves the task, the queue, the agents and the inboxes as they
\* are, and adds no lock.
C16_ConflictRefused ==
    \A id \in DOMAIN tasks, a \in DOMAIN agents :
        HeldByOther(id, a) =>
            LET r == assignTask(St, id, a, now)
            IN /\ ~r.ok
               /\ r.st.tasks[id].status = tasks[id].status
               /\ r.st.tasks[id].attempts = tasks[id].attempts
               /\ r.st.tasks[id].assignedAgent = tasks[id].assignedAgent
               /\ r.st.taskQueue = taskQueue
               /\ r.st.agents = agents
               /\ r.st.inbox = inbox
               /\ \A p \in DOMAIN r.st.locks : p \in DOMAIN locks /\ r.st.locks[p] = locks[p]

\* a pending task and an idle agent that another agent's lock keeps apart
C16_Witness ==
    \E id \in DOMAIN tasks, a \in DOMAIN agents :
        /\ HeldByOther(id, a)
        /\ tasks[id].status = "pending"
        /\ Contains(taskQueue, id)
        /\ agents[a].status = "idle"

\* a lock of another agent than a on path np that has not run out
UnexpiredOfOther(np, a) ==
    /\ np \in DOMAIN locks
    /\ locks[np].agentId # a
    /\ locks[np].expiresAt > now

\* C17: acquireLocks grants a path on which another agent holds an unexpired
\* lock only when the held and the requested lock are both read locks; in
\* every other case the path is denied, reported as a conflict, and the held
\* lock stays.
C17_OnlyReadersShare ==
    \A req \in LockRequests :
        LET r == acquireLocks(locks, req, now)
        IN \A i \in 1..Len(req.paths) :
              LET np == normalizePath(req.paths[i])
              IN UnexpiredOfOther(np, req.agentId) =>
                    IF locks[np].lockType = "read" /\ req.lockType = "read"
                    THEN Contains(r.result.acquired, req.paths[i])
                    ELSE /\ ~Contains(r.result.acquired, req.paths[i])
                         /\ Contains(r.result.failed, req.paths[i])
                         /\ Contains(r.result.conflicts,
                                     [path |-> req.paths[i], heldBy |-> locks[np].agentId])
                         /\ ~r.result.success
                         /\ r.locks[np] = locks[np]

\* two agents hold unexpired locks, one a read lock and one a write lock
C17_Witness ==
    \E p, q \in DOMAIN locks :
        /\ locks[p].agentId # locks[q].agentId
        /\ locks[p].lockType = "read" /\ locks[p].expiresAt > now
        /\ locks[q].lockType = "write" /\ locks[q].expiresAt > now

\* C18: acquireLocks(req) followed by releaseLocks(req.agentId, acquired)
\* gives the lock table back as it was.
C18_AcquireReleaseRoundTrip ==
    \A req \in LockRequests :
        LET r == acquireLocks(locks, req, now)
        IN releaseLocks(r.locks, req.agentId, r.result.acquired) = locks

\* C19: every lock getAllLocks() returns has expiresAt > now, and a lock with
\* expiresAt = now is no conflict for acquireLocks or checkConflicts.
C19_ExpiredAtDeadline ==
    /\ \A p \in DOMAIN getAllLocks(locks, now) : getAllLocks(locks, now)[p].expiresAt > now
    /\ \A p \in DOMAIN locks :
          locks[p].expiresAt = now =>
             \A a \in Agents \ {locks[p].agentId} :
                /\ checkConflicts(locks, a, <<p>>, now) = <<>>
                /\ acquireLocks(locks, [agentId |-> a, taskId |-> NoTask, paths |-> <<p>>,
                                        lockType |-> "write", timeoutMs |-> 0], now).result.success

\* C20: every lock has expiresAt > lockedAt, and a successful extendLock
\* leaves expiresAt greater than it was.
C20_LeaseGrows ==
    /\ \A p \in DOMAIN locks : locks[p].expiresAt > locks[p].lockedAt
    /\ \A a \in Agents, ps \in PathChoices, ms \in ExtendChoices :
          LET r == extendLock(locks, a, ps[1], ms)
          IN r.ok => r.locks[normalizePath(ps[1])].expiresAt
                        > locks[normalizePath(ps[1])].expiresAt

\* C21: when two processes have raced through updateState, the state file
\* reflects both updaters: neither update is lost.
C21_BothUpdatesKept ==
    (\A p \in Agents : writers[p].pc = "done")
        => \A p \in Agents : p \in DOMAIN stateFile.agents

\* C22: at most one process is between a successful acquireLock and its
\* releaseLock.
C22_OneLockHolder == Cardinality(InSection) <= 1

\* C23: the entry an agent wrote for itself into the state file is still in
\* the file after any later write of the coordinator, unless the coordinator
\* removed the agent from its registry in that step.
C23_AgentWritesSurvive ==
    [][\A a \in ClientIds :
          (/\ stateFile.exists
           /\ a \in DOMAIN stateFile.agents
           /\ ~(a \in DOMAIN agents /\ a \notin DOMAIN agents'))
          => a \in DOMAIN stateFile'.agents]_vars

\* C27: a tick dispatches the messages of each outbox in the order the agent
\* sent them: its outcome is the outcome of handling every outbox in send
\* order.
C27_DispatchInSendOrder ==
    [][Tick => Apply(tick(St, outbox, now))]_vars

\* what failTask by the agent a task is assigned to gives: the task back at
\* the head of the queue while attempts < maxAttempts, and else a failed task
\* that carries the error, is in no queue and that no assignTask takes
FailureOutcome ==
    \A a \in DOMAIN agents, e \in Errors :
        LET id == agents[a].currentTask
            r == failTask(St, id, a, e, now)
        IN (id \in DOMAIN tasks /\ tasks[id].assignedAgent = a) =>
              IF tasks[id].attempts < tasks[id].maxAttempts
              THEN /\ r.tasks[id].status = "pending"
                   /\ r.tasks[id].assignedAgent = NoAgent
                   /\ r.taskQueue # <<>> /\ Head(r.taskQueue) = id
              ELSE /\ r.tasks[id].status = "failed"
                   /\ r.tasks[id].error = e
                   /\ ~Contains(r.taskQueue, id)
                   /\ \A b \in Agents : ~assignTask(r, id, b, now).ok

\* a failed task has used all its attempts, is in no queue and is refused
\* by assignTask
FailedIsFinal ==
    \A id \in DOMAIN tasks :
        tasks[id].status = "failed" =>
            /\ tasks[id].attempts = tasks[id].maxAttempts
            /\ tasks[id].error \in Errors
            /\ ~Contains(taskQueue, id)
            /\ \A b \in Agents : ~assignTask(St, id, b, now).ok

\* C24: under createTask, assignTask and failTask by the assigned agent, a
\* failure with attempts left returns the task to pending, the failure that
\* uses the last attempt makes it failed with the error kept and the task out
\* of the queue, and a failed task is never assigned or changed again.
C24_FailedWhenRetriesExhausted ==
    [][/\ FailureOutcome
       /\ FailedIsFinal'
       /\ \A id \in DOMAIN tasks :
             tasks[id].status = "failed" => tasks'[id] = tasks[id]]_vars

\* a task has failed for good on its third attempt
C24_Witness ==
    \E id \in DOMAIN tasks :
        /\ tasks[id].status = "failed"
        /\ tasks[id].attempts = MaxAttempts
        /\ tasks[id].error \in Errors
        /\ \E a \in DOMAIN agents : agents[a].failedTasks = MaxAttempts

NumberByPrecedence(envValue, fileValue, default) ==
    IF envValue # "" THEN parseInt(envValue)
    ELSE IF fileValue # Absent THEN fileValue
    ELSE default

\* the same for a boolean key
FlagByPrecedence(envValue, fileValue, default) ==
    IF envValue # "" THEN envValue = "true"
    ELSE IF fileValue # NoValue THEN fileValue = "true"
    ELSE default

\* C26: for every recognized key, loadConfig returns the environment value
\* when the variable is set, else the config.json value when the key is
\* present, else the default.
C26_ConfigPrecedence ==
    config.loaded =>
        /\ config.value.maxAgents =
              NumberByPrecedence(env.AGENT_MAX_AGENTS, fileConfig.maxAgents,
                                 DEFAULT_CONFIG.maxAgents)
        /\ config.value.heartbeatInterval =
              NumberByPrecedence(env.AGENT_HEARTBEAT_INTERVAL, fileConfig.heartbeatInterval,
                                 DEFAULT_CONFIG.heartbeatInterval)
        /\ config.value.heartbeatTimeout =
              NumberByPrecedence(env.AGENT_HEARTBEAT_TIMEOUT, fileConfig.heartbeatTimeout,
                                 DEFAULT_CONFIG.heartbeatTimeout)
        /\ config.value.lockTimeout =
              NumberByPrecedence("", fileConfig.lockTimeout, DEFAULT_CONFIG.lockTimeout)
        /\ config.value.taskTimeout =
              NumberByPrecedence("", fileConfig.taskTimeout, DEFAULT_CONFIG.taskTimeout)
        /\ config.value.autoAssign =
              FlagByPrecedence(env.AGENT_AUTO_ASSIGN, fileConfig.autoAssign,
                               DEFAULT_CONFIG.autoAssign)
        /\ config.value.gitIntegration =
              FlagByPrecedence(env.AGENT_GIT_INTEGRATION, fileConfig.gitIntegration,
                               DEFAULT_CONFIG.gitIntegration)
        /\ config.value.branchPrefix =
              IF env.AGENT_BRANCH_PREFIX # "" THEN env.AGENT_BRANCH_PREFIX
              ELSE IF fileConfig.branchPrefix # NoValue THEN fileConfig.branchPrefix
              ELSE DEFAULT_CONFIG.branchPrefix

\* C30: a tick runs its whole pass before the next tick starts: at most one
\* callback of the watch interval is in progress.
C30_OnePassAtATime == Len(passes) <= 1

\* C28: of the messages a poll of requestLocks reads, every one but the
\* LOCK_RESPONSE it returns goes to handleMessage, wherever it stands in the
\* batch.
C28_WaitDispatchesTheRest ==
    \A a \in ClientIds :
        client[a].awaiting # 0 =>
            \A msgs \in SortedListings(inbox[a]) :
                LET r == lockWaitLoop(msgs, 1, <<>>)
                IN Len(r.dispatched) + (IF r.returned THEN 1 ELSE 0) = Len(msgs)

\* the coordinator holds the lock request i of agent a asked for
Installed(L, a, i) ==
    \E p \in DOMAIN L : p = normalizePath(RequestPath(i)) /\ L[p].agentId = a

\* C29: requestLocks returns the result of the LOCK_RESPONSE whose
\* correlationId is the id of its own LOCK_REQUEST; it returns its timeout
\* failure only while the coordinator has not installed the locks.
C29_ReturnsItsOwnResponse ==
    [][\A a \in ClientIds :
          (client[a].awaiting # 0 /\ client'[a].awaiting = 0) =>
              \/ client'[a].lockResult.correlationId = client[a].awaiting
              \/ /\ client'[a].lockResult.correlationId = 0
                 /\ ~Installed(locks', a, client[a].awaiting)]_vars

\* C31: a tick that handles TASK_UPDATE{in_progress} from the agent an
\* assigned task is assigned to leaves the task started: its status is no
\* longer assigned and startedAt is set.
C31_UpdateStartsTask ==
    [][\A id \in DOMAIN tasks :
          LET a == tasks[id].assignedAgent
          IN (/\ Tick
              /\ tasks[id].status = "assigned"
              /\ a \in DOMAIN agents
              /\ outbox[a] # <<>>
              /\ \A i \in 1..Len(outbox[a]) :
                    /\ outbox[a][i].type = "TASK_UPDATE"
                    /\ outbox[a][i].taskId = id
                    /\ outbox[a][i].status = "in_progress")
             => /\ tasks'[id].status = "in_progress"
                /\ tasks'[id].startedAt # NoTime]_vars

\* after a successful assignTask(id, a) every target file of the task is
\* write-locked by a for the task
LockedAfterAssign(r, id, a) ==
    r.ok => \A i \in 1..Len(tasks[id].targetFiles) :
               LET np == normalizePath(tasks[id].targetFiles[i])
               IN /\ np \in DOMAIN r.st.locks
                  /\ r.st.locks[np].agentId = a
                  /\ r.st.locks[np].taskId = id
                  /\ r.st.locks[np].lockType = "write"

\* assignTask(id, a) is asked for a pending task and an idle agent while
\* another agent holds a lock on a target file
LocksRefused(id, a) ==
    /\ a \in DOMAIN agents /\ agents[a].status = "idle"
    /\ tasks[id].status = "pending"
    /\ blockers(tasks, tasks[id].blockedBy) = <<>>
    /\ checkConflicts(locks, a, tasks[id].targetFiles, now) # <<>>

C33_PartialAcquisition ==
    \A req \in LockRequests :
        LET r == acquireLocks(locks, req, now)
            res == r.result
        IN /\ Len(res.acquired) + Len(res.failed) = Len(req.paths)
           /\ \A i \in 1..Len(req.paths) :
                 Contains(res.acquired, req.paths[i]) # Contains(res.failed, req.paths[i])
           /\ res.success = (res.failed = <<>>)
           /\ \A i \in 1..Len(res.acquired) :
                 LET np == normalizePath(res.acquired[i])
                 IN /\ np \in DOMAIN r.locks
                    /\ r.locks[np].agentId = req.agentId
                    /\ r.locks[np].lockType = req.lockType
                    /\ r.locks[np].lockedAt = now
           /\ Len(res.conflicts) = Len(res.failed)
           /\ \A i \in 1..Len(res.failed) :
                 LET np == normalizePath(res.failed[i])
                 IN /\ np \in DOMAIN locks
                    /\ r.locks[np] = locks[np]
                    /\ locks[np].agentId # req.agentId
                    /\ res.conflicts[i] = [path |-> res.failed[i],
                                           heldBy |-> locks[np].agentId]

\* two agents hold x and y, and a request for both paths is granted one of
\* them and refused the other
C33_Witness ==
    /\ "x" \in DOMAIN locks /\ "y" \in DOMAIN locks
    /\ locks["x"].agentId # locks["y"].agentId
    /\ locks["x"].lockedAt < locks["y"].lockedAt
    /\ \E req \in LockRequests :
          LET res == acquireLocks(locks, req, now).result
          IN res.acquired # <<>> /\ res.failed # <<>>

----------------------------------------------------------------------------
(* Lock requests of a client that disconnects *)

NextLockOwner ==
    \/ RegisterNewAgent
    \/ CreatePlainTask
    \/ TickOnLockRequests
    \/ ClientRegister
    \/ ClientStart
    \/ ClientCheckMessages
    \/ ClientRequestLocks
    \/ ClientLockPoll
    \/ ClientLockTimeout
    \/ ClientStop

SpecLockOwner == Init /\ [][NextLockOwner]_vars

\* C34: every lock's owning agent is in the agent registry.
C34_LockOwnerRegistered ==
    \A p \in DOMAIN locks : locks[p].agentId \in DOMAIN agents

\* C35: a lock whose deadline has passed is absent for every operation: it is
\* not returned by getLock, getAgentLocks or getAllLocks, isLocked is false,
\* extendLock does not extend it, and it is no conflict for another agent's
\* checkConflicts or acquireLocks.
C35_ExpiredIsAbsent ==
    \A p \in DOMAIN locks :
        now > locks[p].expiresAt =>
            /\ ~isLocked(locks, p, now)
            /\ p \notin DOMAIN getAllLocks(locks, now)
            /\ \A a \in Agents \ {locks[p].agentId} :
                  /\ checkConflicts(locks, a, <<p>>, now) = <<>>
                  /\ acquireLocks(locks, [agentId |-> a, taskId |-> NoTask, paths |-> <<p>>,
                                          lockType |-> "write", timeoutMs |-> 0], now).result.success
            /\ getLock(locks, p) = {}
            /\ p \notin getAgentLocks(locks, locks[p].agentId)
            /\ \A ms \in ExtendChoices : ~extendLock(locks, locks[p].agentId, p, ms).ok

\* C36: whenever a task is neither assigned nor in_progress, no lock carries
\* that task's id.
C36_NoLockOfInactiveTask ==
    \A id \in DOMAIN tasks :
        ~Active(id) => \A p \in DOMAIN locks : locks[p].taskId # id

\* C37: when agent b is granted a read lock on a path on which agent a holds
\* a live read lock, a is still a holder: a's extendLock and releaseLocks
\* still succeed, and after b has released its lock no other agent is granted
\* a write lock while a's lease is live.
C37_ReaderKeepsItsLease ==
    \A p \in DOMAIN locks : \A b \in Agents \ {locks[p].agentId} :
        LET a == locks[p].agentId
            r == acquireLocks(locks, [agentId |-> b, taskId |-> NoTask, paths |-> <<p>>,
                                      lockType |-> "read", timeoutMs |-> 0], now)
            afterRelease == releaseLocks(r.locks, b, <<p>>)
        IN (/\ locks[p].lockType = "read"
            /\ locks[p].expiresAt > now
            /\ r.result.success)
           => /\ p \in getAgentLocks(r.locks, a)
              /\ extendLock(r.locks, a, p, 1).ok
              /\ releaseLocks(r.locks, a, <<p>>) # r.locks
              /\ ~acquireLocks(afterRelease,
                               [agentId |-> b, taskId |-> NoTask, paths |-> <<p>>,
                                lockType |-> "write", timeoutMs |-> 0], now).result.success

----------------------------------------------------------------------------
(* The running system with its timers: the coordinator's tick, the client's *)
(* inbox poll, and a task callback that returns or throws                   *)

NextLive ==
    \/ CreatePlainTask
    \/ RegisterNewAgent
    \/ Tick
    \/ ClientRegister
    \/ ClientStart
    \/ ClientHeartbeat
    \/ ClientCheckMessages
    \/ ClientFinish
    \/ ClientStop
    \/ ReadInbox

SpecLive ==
    /\ Init /\ [][NextLive]_vars
    /\ WF_vars(Tick) /\ WF_vars(ClientCheckMessages) /\ WF_vars(ClientFinish)

\* C38: no task stays assigned forever while the ticks keep running.
C38_AssignedNotForever ==
    \A id \in TaskIds :
        (id \in DOMAIN tasks /\ tasks[id].status = "assigned")
            ~> ~(id \in DOMAIN tasks /\ tasks[id].status = "assigned")

----------------------------------------------------------------------------
(* agent-task add: a second TaskServer on the project of a running one *)

\* main() of the CLI: new TaskServer(config), initialize(), createTask. The
\* second instance has its own memory; what it shares with the running
\* coordinator is the state file.
CliAddTask ==
    /\ Cardinality(DOMAIN stateFile.tasks) < MaxTasks
    /\ \E st \in {createTask(initialize(St, now), "normal", <<>>, <<>>)} :
          stateFile' = st.stateFile
    /\ UNCHANGED <<aux, now, ticks, agents, agentOrder, tasks, taskQueue, completedTasks,
                   locks, inbox, outbox, client>>

NextCli ==
    \/ RegisterNewAgent
    \/ UnregisterAgent
    \/ KeepAlive
    \/ HeartbeatLapse
    \/ CliAddTask
    \/ Tick

SpecCli == Init /\ [][NextCli]_vars

\* C39: a task in the state file stays in the state file: no state write of
\* the running coordinator removes a task that agent-task add created.
C39_CliTaskKept ==
    [][\A id \in DOMAIN stateFile.tasks : id \in DOMAIN stateFile'.tasks]_vars

====
